---- MODULE Spec2Model ----
(***************************************************************************)
(* Model of lib/wasm/WebAssemblyGenerator.js.                              *)
(*                                                                         *)
(* A binary module (the ArrayBuffer `bin`) is modelled by its decoded      *)
(* content: a record of sections, each either absent or an ordered list of *)
(* entries.  Two buffers that are byte-identical decode to equal records.  *)
(* The decoder and the patch-applier (@webassemblyjs) are external; they   *)
(* are modelled by their contract: remove deletes the selected entries,    *)
(* add appends each new node at the end of its section, creating the       *)
(* section when it is absent.                                              *)
(***************************************************************************)
EXTENDS Integers, Sequences, FiniteSets, TLC

\* ---------------------------------------------------------------- bounds
MaxImports == 3
MaxTypes == 1
MaxFuncs == 1
MaxLocalGlobals == 1
MaxExports == 1
MaxRuns == 2

\* ------------------------------------------------------- format vocabulary
ValTypes == {"i32", "i64", "f32", "f64"}
Mutabilities == {"const", "var"}

ImportNames == <<"g0", "g1", "g2", "g3", "g4">>
ExportNames == <<"e0", "e1", "e2", "e3", "e4">>

\* ------------------------------------------------------ AST node builders
identifier(v) == [type |-> "Identifier", value |-> v]
indexLiteral(n) == [type |-> "NumberLiteral", value |-> n]
numberLiteral(n) == [type |-> "NumberLiteral", value |-> n]
undefined == [type |-> "undefined"]

instruction(id, args) == [type |-> "Instr", id |-> id, args |-> args]
objectInstruction(id, object, args) ==
    [type |-> "Instr", id |-> id, object |-> object, args |-> args]
callInstruction(index) == [type |-> "CallInstruction", id |-> "call", index |-> index]

funcParam(valtype, id) == [valtype |-> valtype, id |-> id]
global(globalType, init) == [type |-> "Global", globalType |-> globalType, init |-> init]
func(name, params, result, body) ==
    [type |-> "Func", name |-> name,
     signature |-> [params |-> params, result |-> result], body |-> body]
typeInstructionFunc(params, result) ==
    [type |-> "TypeInstruction", functype |-> [params |-> params, result |-> result]]
indexInFuncSection(index) == [type |-> "IndexInFuncSection", index |-> index]
moduleExport(name, exportType, id) ==
    [type |-> "ModuleExport", name |-> name,
     descr |-> [exportType |-> exportType, id |-> id]]
moduleImport(module, name, descr) ==
    [type |-> "ModuleImport", module |-> module, name |-> name, descr |-> descr]

initFuncId == identifier("__webpack_init__")

\* ------------------------------------------------------------- sections
NoSection == [present |-> FALSE, entries |-> <<>>]
Section(s) == [present |-> TRUE, entries |-> s]

SectionNames == {"type", "import", "func", "global", "export", "start", "code"}

\* section a node is encoded into
getSectionForNode(n) ==
    CASE n.type = "TypeInstruction" -> "type"
      [] n.type = "ModuleImport" -> "import"
      [] n.type = "IndexInFuncSection" -> "func"
      [] n.type = "Global" -> "global"
      [] n.type = "ModuleExport" -> "export"
      [] n.type = "Start" -> "start"
      [] n.type = "Func" -> "code"

\* metadata of a section, or undefined when the module has no such section
getSectionMetadata(ast, section) ==
    IF ast[section].present
    THEN [type |-> "SectionMetadata", section |-> section,
          vectorOfSize |-> numberLiteral(Len(ast[section].entries))]
    ELSE undefined

\* decode(bin, {ignoreDataSection, ignoreCodeSection}): the tree of the
\* buffer; function bodies are skipped
decode(b) ==
    [b EXCEPT !["code"] = [present |-> b["code"].present, entries |-> <<>>]]

\* ------------------------------------------------------- patch-applier
\* one "add" operation: the node is appended at the end of its section
applyAdd(b, node) ==
    LET s == getSectionForNode(node)
    IN  [b EXCEPT ![s] = Section(Append(b[s].entries, node))]

RECURSIVE addWithAST(_, _, _)
addWithAST(ast, b, newNodes) ==
    IF newNodes = <<>> THEN b
    ELSE addWithAST(ast, applyAdd(b, Head(newNodes)), Tail(newNodes))

\* "delete" operations of editWithAST on the entries of one section that the
\* visitor called path.remove() on
RECURSIVE removeEntries(_, _)
removeEntries(entries, removed) ==
    IF entries = <<>> THEN <<>>
    ELSE LET n == Len(entries)
             rest == removeEntries(SubSeq(entries, 1, n - 1), removed)
         IN  IF n \in removed THEN rest ELSE Append(rest, entries[n])

\* ------------------------------------------------------ utility functions
isGlobalImport(n) == n.descr.type = "GlobalType"
isFuncImport(n) == n.descr.type = "FuncImportDescr"

\* compose(...fns): fns.reverse().reduce((prevFn, nextFn) => v => nextFn(prevFn(v)), id).
\* A composed function is represented by the list of the transforms it
\* applies, first applied first: the identity is <<>>, and
\* value => nextFn(prevFn(value)) applies nextFn after everything in prevFn.
reverse(fns) == [i \in 1..Len(fns) |-> fns[Len(fns) + 1 - i]]

RECURSIVE reduce(_, _)
reduce(fns, prevFn) ==
    IF fns = <<>> THEN prevFn
    ELSE reduce(Tail(fns), Append(prevFn, Head(fns)))

compose(fns) == reduce(reverse(fns), <<>>)

\* ---------------------------------------------------------- IndexAnalyzer
getStartFuncIndex(ast) ==
    IF ast["start"].present THEN ast["start"].entries[1].index ELSE undefined

getImportedGlobals(ast) == SelectSeq(ast["import"].entries, isGlobalImport)

\* faulty variant: every import that is not a global is counted as a function
getCountImportedFuncNotGlobal(ast) ==
    Len(ast["import"].entries) - Len(SelectSeq(ast["import"].entries, isGlobalImport))

getCountImportedFunc(ast) == Len(SelectSeq(ast["import"].entries, isFuncImport))

getNextTypeIndex(ast) ==
    LET typeSectionMetadata == getSectionMetadata(ast, "type")
    IN  IF typeSectionMetadata = undefined
        THEN indexLiteral(0)
        ELSE indexLiteral(typeSectionMetadata.vectorOfSize.value)

\* faulty variant: the index is not shifted by the number of imported functions
getNextFuncIndexNoShift(ast, countImportedFunc) ==
    IF ast["func"].present
    THEN indexLiteral(Len(ast["func"].entries))
    ELSE indexLiteral(0)

getNextFuncIndex(ast, countImportedFunc) ==
    LET funcSectionMetadata == getSectionMetadata(ast, "func")
    IN  IF funcSectionMetadata = undefined
        THEN indexLiteral(0 + countImportedFunc)
        ELSE indexLiteral(funcSectionMetadata.vectorOfSize.value + countImportedFunc)

\* ---------------------------------------------------------- the transforms
\* faulty variant: the Start visitor does nothing
removeStartFuncKept(ast, b) == b

\* removeStartFunc: the Start visitor removes the node
removeStartFunc(ast, b) ==
    IF ast["start"].present THEN [b EXCEPT !["start"] = NoSection] ELSE b

\* faulty variant: the import's mutability is kept
newGlobalSameMutability(node) ==
    global(node.descr, <<objectInstruction("const", "i32", <<numberLiteral(0)>>)>>)

\* the global pushed to newGlobals for one global import
newGlobal(node) ==
    LET globalType == [node.descr EXCEPT !.mutability = "var"]
    IN  global(globalType, <<objectInstruction("const", "i32", <<numberLiteral(0)>>)>>)

\* positions of the import nodes the ModuleImport visitor removes
removedImports(ast) ==
    {i \in 1..Len(ast["import"].entries) : isGlobalImport(ast["import"].entries[i])}

newGlobals(ast) ==
    LET g == getImportedGlobals(ast)
    IN  [i \in 1..Len(g) |-> newGlobal(g[i])]

\* faulty variant: the global section is written even when no global is added
rewriteImportedGlobalsWithSection(ast, b) ==
    LET edited == [b EXCEPT !["import"].entries =
                        removeEntries(b["import"].entries, removedImports(ast))]
        added == addWithAST(ast, edited, newGlobals(ast))
    IN  [added EXCEPT !["global"] = Section(added["global"].entries)]

rewriteImportedGlobals(ast, b) ==
    LET edited == [b EXCEPT !["import"].entries =
                        removeEntries(b["import"].entries, removedImports(ast))]
    IN  addWithAST(ast, edited, newGlobals(ast))

\* the tree after the visitor ran: globalType.mutability = "var" is written
\* into the import's own descriptor, and the removed nodes leave the tree
rewrittenAst(ast) ==
    [ast EXCEPT !["import"].entries =
        removeEntries(ast["import"].entries, removedImports(ast))]

\* the importedGlobals list holds the very nodes the visitor mutates
aliasedGlobals(importedGlobals) ==
    [i \in 1..Len(importedGlobals) |->
        [importedGlobals[i] EXCEPT !.descr.mutability = "var"]]

funcParams(importedGlobals) ==
    [i \in 1..Len(importedGlobals) |->
        funcParam(importedGlobals[i].descr.valtype,
                  identifier(<<importedGlobals[i].module, importedGlobals[i].name>>))]

RECURSIVE setGlobals(_, _)
setGlobals(importedGlobals, index) ==
    IF index >= Len(importedGlobals) THEN <<>>
    ELSE <<instruction("get_local", <<indexLiteral(index)>>),
           instruction("set_global", <<indexLiteral(index)>>)>>
         \o setGlobals(importedGlobals, index + 1)

\* faulty variant: the start function is tested for truthiness of its index value
funcBodyTruthy(importedGlobals, startAtFuncIndex) ==
    LET acc == setGlobals(importedGlobals, 0)
    IN  IF startAtFuncIndex # undefined /\ startAtFuncIndex.value # 0
        THEN Append(acc, callInstruction(startAtFuncIndex))
        ELSE acc

funcBody(importedGlobals, startAtFuncIndex) ==
    LET acc == setGlobals(importedGlobals, 0)
    IN  IF startAtFuncIndex # undefined
        THEN Append(acc, callInstruction(startAtFuncIndex))
        ELSE acc

\* faulty variant: nothing is added to a module that already exports the init function
addInitFunctionOnce(ast, startAtFuncIndex, importedGlobals, nextFuncIndex, nextTypeIndex, b) ==
    IF \E i \in 1..Len(b["export"].entries) : b["export"].entries[i].name = initFuncId.value
    THEN b
    ELSE addWithAST(ast, b,
            <<func(initFuncId, funcParams(importedGlobals), <<>>,
                   funcBody(importedGlobals, startAtFuncIndex)),
              moduleExport(initFuncId.value, "Func", nextFuncIndex),
              indexInFuncSection(nextTypeIndex),
              typeInstructionFunc(funcParams(importedGlobals), <<>>)>>)

addInitFunction(ast, startAtFuncIndex, importedGlobals, nextFuncIndex, nextTypeIndex, b) ==
    LET funcResults == <<>>
        fn == func(initFuncId, funcParams(importedGlobals), funcResults,
                   funcBody(importedGlobals, startAtFuncIndex))
        functype == typeInstructionFunc(fn.signature.params, fn.signature.result)
        funcindex == indexInFuncSection(nextTypeIndex)
        mExport == moduleExport(initFuncId.value, "Func", nextFuncIndex)
    IN  addWithAST(ast, b, <<fn, mExport, funcindex, functype>>)

\* transform(bin): the composed transforms applied one after the other, each on
\* the buffer the one before returned.  st is the state the closures share:
\* the tree and the analysis results.  The result lists, per transform, the
\* buffer it received and the buffer it returned.
applyTransform(fn, st, b) ==
    CASE fn = "removeStartFunc" -> removeStartFunc(st.ast, b)
      [] fn = "rewriteImportedGlobals" -> rewriteImportedGlobals(st.ast, b)
      [] fn = "addInitFunction" ->
            addInitFunction(st.ast, st.startAtFuncIndex, st.importedGlobals,
                            st.nextFuncIndex, st.nextTypeIndex, b)

\* what a transform's visitor leaves behind in the shared tree
stateAfter(fn, st) ==
    CASE fn = "removeStartFunc" -> [st EXCEPT !.ast["start"] = NoSection]
      [] fn = "rewriteImportedGlobals" ->
            [st EXCEPT !.ast = rewrittenAst(st.ast),
                       !.importedGlobals = aliasedGlobals(st.importedGlobals)]
      [] fn = "addInitFunction" -> st

RECURSIVE runTransform(_, _, _)
runTransform(fns, st, b) ==
    IF fns = <<>> THEN <<>>
    ELSE LET out == applyTransform(Head(fns), st, b)
         IN  <<[fn |-> Head(fns), in |-> b, out |-> out]>>
             \o runTransform(Tail(fns), stateAfter(Head(fns), st), out)

\* ------------------------------------------------------- input modules
\* the import descriptors of the format: function, global, memory
GlobalDescrs ==
    {[type |-> "GlobalType", valtype |-> v, mutability |-> m] :
        v \in ValTypes, m \in Mutabilities}

OtherDescrs ==
    {[type |-> "FuncImportDescr", typeidx |-> indexLiteral(0)], [type |-> "Memory"]}

ImportDescrs == GlobalDescrs \cup OtherDescrs

\* the descriptors used where the sections of the module vary
FewDescrs ==
    OtherDescrs \cup {[type |-> "GlobalType", valtype |-> "f64", mutability |-> "const"]}

DescrSeqs(D) == UNION {[1..n -> D] : n \in 0..MaxImports}

importSection(ds) ==
    IF ds = <<>> THEN NoSection
    ELSE Section([i \in 1..Len(ds) |-> moduleImport("env", ImportNames[i], ds[i])])

oldType(i) == typeInstructionFunc(<<>>, <<>>)
oldFuncIndex(i) == indexInFuncSection(indexLiteral(0))
oldFunc(i) == func(identifier("func"), <<>>, <<>>, <<instruction("nop", <<>>)>>)
oldGlobal(i) ==
    global([type |-> "GlobalType", valtype |-> "i32", mutability |-> "const"],
           <<objectInstruction("const", "i32", <<numberLiteral(i)>>)>>)
oldExport(i) == moduleExport(ExportNames[i], "Memory", indexLiteral(0))
startNode(i) == [type |-> "Start", index |-> indexLiteral(i)]

\* a module of nt types, nf functions, ng globals and ne exports; -1 types or
\* functions stand for a module without the section
module(ds, nt, nf, ng, ne, st) ==
    [type |-> IF nt < 0 THEN NoSection ELSE Section([i \in 1..nt |-> oldType(i)]),
     import |-> importSection(ds),
     func |-> IF nf < 0 THEN NoSection ELSE Section([i \in 1..nf |-> oldFuncIndex(i)]),
     global |-> IF ng = 0 THEN NoSection ELSE Section([i \in 1..ng |-> oldGlobal(i)]),
     export |-> IF ne = 0 THEN NoSection ELSE Section([i \in 1..ne |-> oldExport(i)]),
     start |-> IF st < 0 THEN NoSection ELSE Section(<<startNode(st)>>),
     code |-> IF nf < 0 THEN NoSection ELSE Section([i \in 1..nf |-> oldFunc(i)])]

\* number of functions of a module: imported ones, then the defined ones
countFuncs(ds, nf) ==
    Cardinality({i \in 1..Len(ds) : ds[i].type = "FuncImportDescr"})
    + (IF nf < 0 THEN 0 ELSE nf)

\* modules of one type and one function, with every mix of imports, with and
\* without a start section (of function 0)
ImportModules ==
    {module(x[1], 1, 1, 0, 0, x[2]) : x \in DescrSeqs(ImportDescrs) \X {-1, 0}}

\* modules with and without each section: a function refers to an existing
\* type, the start section to an existing function
SectionModules ==
    {module(x[1], x[2], x[3], x[4], x[5], x[6]) :
        x \in {y \in DescrSeqs(FewDescrs) \X (-1..MaxTypes) \X (-1..MaxFuncs)
                      \X (0..MaxLocalGlobals) \X (0..MaxExports)
                      \X (-1..(MaxImports + MaxFuncs - 1)) :
                  /\ (countFuncs(y[1], y[3]) > 0 => y[2] >= 1)
                  /\ y[6] < countFuncs(y[1], y[3])}}

Modules == ImportModules \cup SectionModules

\* --------------------------------------------------------------- state
VARIABLES
    source,             \* module.originalSource().source() of the current call
    countImportedFunc, startAtFuncIndex, nextFuncIndex, nextTypeIndex,
    applied,            \* the transforms applied, in order, with input and output
    newBin,             \* the buffer of the RawSource generate returns
    run,                \* number of the generate call
    pc

vars == <<source, countImportedFunc, startAtFuncIndex, nextFuncIndex,
          nextTypeIndex, applied, newBin, run, pc>>

Init ==
    /\ source \in Modules
    /\ countImportedFunc = 0
    /\ startAtFuncIndex = undefined
    /\ nextFuncIndex = undefined
    /\ nextTypeIndex = undefined
    /\ applied = <<>>
    /\ newBin = undefined
    /\ run = 1
    /\ pc = "generate"

\* the state the transforms are built with
transformState(tree, start, nextFunc, nextType) ==
    [ast |-> tree,
     importedGlobals |-> getImportedGlobals(tree),
     startAtFuncIndex |-> start,
     nextFuncIndex |-> nextFunc,
     nextTypeIndex |-> nextType]

\* WebAssemblyGenerator.generate(module)
Generate ==
    /\ pc = "generate"
    /\ countImportedFunc' = getCountImportedFunc(decode(source))
    /\ startAtFuncIndex' = getStartFuncIndex(decode(source))
    /\ nextFuncIndex' = getNextFuncIndex(decode(source), countImportedFunc')
    /\ nextTypeIndex' = getNextTypeIndex(decode(source))
    /\ applied' = runTransform(
            compose(<<"removeStartFunc", "rewriteImportedGlobals", "addInitFunction">>),
            transformState(decode(source), startAtFuncIndex', nextFuncIndex',
                           nextTypeIndex'),
            source)
    /\ newBin' = applied'[Len(applied')].out
    /\ pc' = "done"
    /\ UNCHANGED <<source, run>>

\* generate is called again, on the module it produced
Regenerate ==
    /\ pc = "done" /\ run < MaxRuns
    /\ source' = newBin
    /\ run' = run + 1
    /\ pc' = "generate"
    /\ UNCHANGED <<countImportedFunc, startAtFuncIndex, nextFuncIndex,
                   nextTypeIndex, applied, newBin>>

Next ==
    \/ Generate
    \/ Regenerate

Spec == Init /\ [][Next]_vars

TypeOK ==
    /\ pc \in {"generate", "done"}
    /\ run \in 1..MaxRuns
    /\ Len(applied) \in {0, 3}

\* ------------------------------------------------------------ properties
Done == pc = "done"

IsGlobal(n) == n.descr.type = "GlobalType"
NotGlobal(n) == n.descr.type # "GlobalType"
IsFunc(n) == n.descr.type = "FuncImportDescr"

GlobalImportsOf(m) == SelectSeq(m["import"].entries, IsGlobal)
OtherImportsOf(m) == SelectSeq(m["import"].entries, NotGlobal)
FuncImportCount(m) == Len(SelectSeq(m["import"].entries, IsFunc))

\* k and m of the module generate was called with
K == Len(GlobalImportsOf(source))
M == Len(source["global"].entries)

\* the global index space of a module: imported globals, then defined ones
GlobalSpace(m) == GlobalImportsOf(m) \o m["global"].entries

Last(s) == s[Len(s)]
Front(s) == SubSeq(s, 1, Len(s) - 1)

\* what one transform of the last generate call received and returned
Stage(fn) == applied[CHOOSE i \in 1..Len(applied) : applied[i].fn = fn]

\* the globals a transform appended to the global section
AddedGlobals(a) ==
    SubSeq(a.out["global"].entries, Len(a.in["global"].entries) + 1,
           Len(a.out["global"].entries))

InitExports(m) ==
    {i \in 1..Len(m["export"].entries) : m["export"].entries[i].name = "__webpack_init__"}

\* C1: after generate, global indices [0,k) are the interned globals in
\* import order and [k,k+m) are the module's own globals in their order.
C1_InternedGlobalsFirst ==
    Done =>
        LET G == GlobalSpace(newBin)
            imp == GlobalImportsOf(source)
        IN  /\ Len(G) = K + M
            /\ \A i \in 1..K :
                  /\ G[i].type = "Global"
                  /\ G[i].globalType.valtype = imp[i].descr.valtype
                  /\ G[i].globalType.mutability = "var"
            /\ \A j \in 1..M : G[K + j] = source["global"].entries[j]

\* C2: generate applies removeStartFunc, then rewriteImportedGlobals, then
\* addInitFunction, each on the buffer the one before returned.
C2_StageOrder ==
    Done =>
        /\ [i \in 1..Len(applied) |-> applied[i].fn]
              = <<"removeStartFunc", "rewriteImportedGlobals", "addInitFunction">>
        /\ applied[1].in = source
        /\ \A i \in 2..Len(applied) : applied[i].in = applied[i - 1].out

\* C3: the output of generate has no global import and no start section, and
\* keeps every other import, in order.
C3_NoGlobalImportNoStart ==
    Done =>
        /\ GlobalImportsOf(newBin) = <<>>
        /\ ~newBin["start"].present
        /\ OtherImportsOf(newBin) = OtherImportsOf(source)
        /\ newBin["import"].entries = OtherImportsOf(source)

C3_Witness ==
    /\ Done
    /\ source["start"].present
    /\ Len(source["import"].entries) = 3
    /\ NotGlobal(source["import"].entries[1])
    /\ IsGlobal(source["import"].entries[2])
    /\ NotGlobal(source["import"].entries[3])
    /\ source["import"].entries[1].descr # source["import"].entries[3].descr

\* C4: the output has one export more than the input, __webpack_init__, of
\* kind Func, whose index is that of the synthesized function in the output,
\* and the function's type takes the value types of the k global imports, in
\* order, and returns nothing.
C4_InitExport ==
    Done =>
        LET E == newBin["export"].entries
            e == Last(E)
            fpos == e.descr.id.value - FuncImportCount(newBin) + 1
            imp == GlobalImportsOf(source)
        IN  /\ Len(E) = Len(source["export"].entries) + 1
            /\ Front(E) = source["export"].entries
            /\ e.name = "__webpack_init__"
            /\ e.descr.exportType = "Func"
            /\ e.descr.id = nextFuncIndex
            /\ fpos = Len(newBin["func"].entries)
            /\ fpos = Len(source["func"].entries) + 1
            /\ fpos = Len(newBin["code"].entries)
            /\ newBin["code"].entries[fpos].name.value = "__webpack_init__"
            /\ newBin["func"].entries[fpos].index = nextTypeIndex
            /\ LET tpos == newBin["func"].entries[fpos].index.value + 1
               IN  /\ tpos = Len(newBin["type"].entries)
                   /\ tpos = Len(source["type"].entries) + 1
                   /\ LET ty == newBin["type"].entries[tpos].functype
                      IN  /\ Len(ty.params) = K
                          /\ \A i \in 1..K :
                                ty.params[i].valtype = imp[i].descr.valtype
                          /\ ty.result = <<>>

C4_Witness ==
    /\ Done
    /\ K = 2
    /\ GlobalImportsOf(source)[1].descr.valtype # GlobalImportsOf(source)[2].descr.valtype
    /\ FuncImportCount(source) = 1
    /\ Len(source["func"].entries) = 1
    /\ IsFunc(source["import"].entries[1])

\* C5: the body of the synthesized function is get_local i, set_global i for
\* i = 0..k-1, then a call of the input's start function if there is one, and
\* nothing else.
ExpectedBody ==
    [i \in 1..(2 * K) |->
        IF i % 2 = 1
        THEN [type |-> "Instr", id |-> "get_local",
              args |-> <<[type |-> "NumberLiteral", value |-> (i - 1) \div 2]>>]
        ELSE [type |-> "Instr", id |-> "set_global",
              args |-> <<[type |-> "NumberLiteral", value |-> (i - 2) \div 2]>>]]
    \o (IF source["start"].present
        THEN <<[type |-> "CallInstruction", id |-> "call",
                index |-> source["start"].entries[1].index]>>
        ELSE <<>>)

C5_InitBody ==
    Done => Last(newBin["code"].entries).body = ExpectedBody

C5_Witness ==
    /\ Done
    /\ K = 2
    /\ source["start"].present
    /\ source["start"].entries[1].index.value = 1

\* C6 as stated: with no global import and no start section the output of
\* generate is identical to the input.
C6_ByteIdentical ==
    (Done /\ K = 0 /\ ~source["start"].present) => newBin = source

\* C6 as amended: with no global import and no start section, removeStartFunc
\* and rewriteImportedGlobals return their input, and the output is the input
\* plus the init function: one type () -> (), one function of that type with
\* an empty body, and the export __webpack_init__.
C6_OnlyInitFunctionAdded ==
    (Done /\ K = 0 /\ ~source["start"].present) =>
        /\ Stage("removeStartFunc").out = Stage("removeStartFunc").in
        /\ Stage("rewriteImportedGlobals").out = Stage("rewriteImportedGlobals").in
        /\ newBin["import"] = source["import"]
        /\ newBin["global"] = source["global"]
        /\ newBin["start"] = source["start"]
        /\ Front(newBin["type"].entries) = source["type"].entries
        /\ Last(newBin["type"].entries).functype = [params |-> <<>>, result |-> <<>>]
        /\ Front(newBin["func"].entries) = source["func"].entries
        /\ Last(newBin["func"].entries).index.value = Len(source["type"].entries)
        /\ Front(newBin["code"].entries) = source["code"].entries
        /\ Last(newBin["code"].entries).body = <<>>
        /\ Front(newBin["export"].entries) = source["export"].entries
        /\ Last(newBin["export"].entries).name = "__webpack_init__"
        /\ newBin # source

C6_Witness ==
    /\ Done /\ run = 1
    /\ K = 0 /\ ~source["start"].present
    /\ Len(source["import"].entries) >= 1
    /\ Len(source["global"].entries) >= 1

\* C7: the global added for a global import is initialised with a zero
\* constant of the global's own value type.
C7_ZeroOfOwnType ==
    Done =>
        \A i \in 1..Len(AddedGlobals(Stage("rewriteImportedGlobals"))) :
            LET g == AddedGlobals(Stage("rewriteImportedGlobals"))[i]
            IN  /\ Len(g.init) = 1
                /\ g.init[1].id = "const"
                /\ g.init[1].object = g.globalType.valtype
                /\ g.init[1].args = <<[type |-> "NumberLiteral", value |-> 0]>>

\* C8: rewriteImportedGlobals adds one global per global import, in order,
\* mutable and of the import's value type, whatever the import's mutability.
C8_AddedGlobalsMutable ==
    Done =>
        LET a == Stage("rewriteImportedGlobals")
            imp == GlobalImportsOf(a.in)
            new == AddedGlobals(a)
        IN  /\ Len(new) = Len(imp)
            /\ Len(a.out["global"].entries) = Len(a.in["global"].entries) + Len(imp)
            /\ \A i \in 1..Len(imp) :
                  /\ new[i].type = "Global"
                  /\ new[i].globalType.mutability = "var"
                  /\ new[i].globalType.valtype = imp[i].descr.valtype

C8_Witness ==
    /\ Done
    /\ K = 2
    /\ GlobalImportsOf(source)[1].descr.mutability = "const"
    /\ GlobalImportsOf(source)[2].descr.mutability = "var"
    /\ GlobalImportsOf(source)[1].descr.valtype # GlobalImportsOf(source)[2].descr.valtype

\* C9: nextTypeIndex is 0 without a type section and its number of entries
\* otherwise; nextFuncIndex is the number of function imports, plus the number
\* of entries of the function section if there is one.
C9_NextIndices ==
    Done =>
        /\ nextTypeIndex.value =
              (IF source["type"].present THEN Len(source["type"].entries) ELSE 0)
        /\ nextFuncIndex.value =
              (IF source["func"].present THEN Len(source["func"].entries) ELSE 0)
              + FuncImportCount(source)
        /\ countImportedFunc = FuncImportCount(source)

C9_Witness ==
    /\ Done
    /\ ~source["func"].present
    /\ FuncImportCount(source) = 1
    /\ Len(source["import"].entries) = 3
    /\ K = 1

\* C10: a generate call on the output of generate finds no global import and
\* no start section, its rewriteImportedGlobals returns its input, and it adds
\* one more function, type and export __webpack_init__, without parameters and
\* with an empty body.
C10_SecondRunAddsAgain ==
    (Done /\ run >= 2) =>
        /\ K = 0
        /\ ~source["start"].present
        /\ Stage("rewriteImportedGlobals").out = Stage("rewriteImportedGlobals").in
        /\ Cardinality(InitExports(source)) = run - 1
        /\ Cardinality(InitExports(newBin)) = run
        /\ Len(newBin["type"].entries) = Len(source["type"].entries) + 1
        /\ Len(newBin["func"].entries) = Len(source["func"].entries) + 1
        /\ Len(newBin["code"].entries) = Len(source["code"].entries) + 1
        /\ Last(newBin["type"].entries).functype.params = <<>>
        /\ Last(newBin["code"].entries).signature.params = <<>>
        /\ Last(newBin["code"].entries).body = <<>>

C10_Witness ==
    /\ Done /\ run = 2
    /\ Len(newBin["global"].entries) >= 2

====
